---- MODULE Spec2Model ----
(***************************************************************************)
(* Model of oxiplayer: the playback backend (src/src/audio.rs), the        *)
(* application controller and the process/event loop (src/src/main.rs).    *)
(*                                                                         *)
(* The controller state is the record `app` whose fields carry the names   *)
(* of the fields of struct App; the field `sink` is the content of         *)
(* AudioPlayer.sink (Option<Sink>).  Option values are sequences of        *)
(* length 0 (None) or 1 (Some).  Indices are 0-based as in the source.     *)
(* The volume is counted in steps of 0.1 (7 stands for 0.7).               *)
(***************************************************************************)
EXTENDS Integers, Sequences, FiniteSets, TLC

\* ------------------------------------------------------------------ bounds
\* Number of distinct music files that can ever appear under the root.
MaxFiles == 2

\* ------------------------------------------------------- program constants
VolumeInit == 7
VolumeMax == 10
VolumeMin == 0
SinkDefaultVolume == 10

\* ------------------------------------------------------------------ values
None == <<>>
Some(x) == <<x>>
IsSome(o) == o # <<>>
Unwrap(o) == o[1]

\* Display names, listed in ordinal order.
AllNames == <<"a.mp3", "b.mp3", "c.mp3", "d.mp3", "e.mp3", "f.mp3">>
FileIds == 1..MaxFiles

RECURSIVE SortedNames(_, _)
\* The names of the files in S from index i on, in ordinal order
\* (the result of the sort at the end of scan_music_files).
SortedNames(S, i) ==
    IF i > MaxFiles THEN <<>>
    ELSE IF i \in S THEN <<AllNames[i]>> \o SortedNames(S, i + 1)
    ELSE SortedNames(S, i + 1)

\* scan_music_files: every listing the directory can produce, sorted by name.
scan_music_files == { SortedNames(S, 1) : S \in SUBSET FileIds }

\* ------------------------------------------------------- scan_music_files
\* File names are sequences of character codes; "." is 46.
Dot == 46
ExtMp3 == <<109, 112, 51>>
ExtWav == <<119, 97, 118>>
ExtFlac == <<102, 108, 97, 99>>
ExtOgg == <<111, 103, 103>>
ExtM4a == <<109, 52, 97>>
ExtAac == <<97, 97, 99>>
\* The array `music_extensions`.
music_extensions == {ExtMp3, ExtWav, ExtFlac, ExtOgg, ExtM4a, ExtAac}

\* str::to_lowercase on ASCII: A..Z (65..90) become a..z.
to_lowercase(str) ==
    [k \in 1..Len(str) |-> IF str[k] \in 65..90 THEN str[k] + 32 ELSE str[k]]

\* One item of the WalkDir iterator: an error, or an entry (a regular file or a
\* directory) with the stem and the extension of its file name.
WalkErr == [ok |-> FALSE, stem |-> 0, ext |-> <<>>, dir |-> FALSE]
WalkEntry(stem, ext, dir) == [ok |-> TRUE, stem |-> stem, ext |-> ext, dir |-> dir]

\* path.file_name() of an entry.
file_name(e) == IF e.ext = <<>> THEN <<e.stem>> ELSE <<e.stem, Dot>> \o e.ext

\* The test of the loop body: the entry has an extension and its lower-case
\* form is one of music_extensions.
is_music(e) == e.ext # <<>> /\ to_lowercase(e.ext) \in music_extensions

RECURSIVE str_le(_, _)
\* String::cmp(a, b) is not Greater: ordinal comparison, code by code.
str_le(x, y) ==
    IF x = <<>> THEN TRUE
    ELSE IF y = <<>> THEN FALSE
    ELSE IF x[1] # y[1] THEN x[1] < y[1]
    ELSE str_le(Tail(x), Tail(y))

RECURSIVE insert_by_name(_, _)
\* f inserted into the sorted fs after every element that is not greater.
insert_by_name(fs, f) ==
    IF fs = <<>> THEN <<f>>
    ELSE IF str_le(fs[1].name, f.name) THEN <<fs[1]>> \o insert_by_name(Tail(fs), f)
    ELSE <<f>> \o fs

RECURSIVE sort_by_name(_)
\* files.sort_by(|a, b| a.name.cmp(&b.name)): a stable sort.
sort_by_name(fs) ==
    IF fs = <<>> THEN <<>>
    ELSE insert_by_name(sort_by_name(SubSeq(fs, 1, Len(fs) - 1)), fs[Len(fs)])

\* One turn of the for loop: item number i of the walk is e.
scan_visit(fs, e, i) ==
    IF e.ok /\ is_music(e) THEN Append(fs, [path |-> i, name |-> file_name(e)]) ELSE fs

RECURSIVE scan_loop(_, _, _)
\* The for loop over the items of walk from number i on.
scan_loop(fs, walk, i) ==
    IF i > Len(walk) THEN fs ELSE scan_loop(scan_visit(fs, walk[i], i), walk, i + 1)

\* scan_music_files as a whole, on the items WalkDir yields.
scan_walk(walk) == sort_by_name(scan_loop(<<>>, walk, 1))

\* The Result of scan_music_files.
ScanOk(fs) == [ok |-> TRUE, files |-> fs]
ScanErr == [ok |-> FALSE, files |-> <<>>]

\* The display names of a scan result.
names_of(fs) == [k \in 1..Len(fs) |-> fs[k].name]

\* scan_music_files that gives the error of the root back to its caller.
scan_root_gone_fails == ScanErr

\* scan_music_files when the root directory is gone or cannot be opened:
\* WalkDir yields one error item for the root.
scan_root_gone == ScanOk(names_of(scan_walk(<<WalkErr>>)))

\* Results of AudioPlayer::play: success, or the `?` that returned early.
PlayErrors == {"NoDevice", "OpenFailed", "DecodeFailed"}

\* ---------------------------------------------------------------- rodio Sink
\* Sink::try_new: volume 1.0, not paused, nothing queued.
Sink_try_new == [paused |-> FALSE, volume |-> SinkDefaultVolume, empty |-> TRUE]
\* sink.append(source); sink.play()
Sink_append_play(s) == [s EXCEPT !.empty = FALSE, !.paused = FALSE]

\* ------------------------------------------------------------- AudioPlayer
\* stop that leaves the sink in place.
AudioPlayer_stop_keeps(a) == a

\* AudioPlayer::stop: take() the sink, stop it and drop it.
AudioPlayer_stop(a) == [a EXCEPT !.sink = None]

\* The tail of AudioPlayer::play: append, play and store the local sink.
AudioPlayer_store(a, s) == [a EXCEPT !.sink = Some(Sink_append_play(s))]

\* AudioPlayer::play as a whole; o is "Ok" or the error of the failing `?`.
AudioPlayer_play(a, o) ==
    LET a1 == AudioPlayer_stop(a)
    IN IF o = "Ok" THEN AudioPlayer_store(a1, Sink_try_new) ELSE a1

AudioPlayer_pause(a) ==
    IF IsSome(a.sink) THEN [a EXCEPT !.sink[1].paused = TRUE] ELSE a

AudioPlayer_resume(a) ==
    IF IsSome(a.sink) THEN [a EXCEPT !.sink[1].paused = FALSE] ELSE a

AudioPlayer_is_paused(a) == IF IsSome(a.sink) THEN a.sink[1].paused ELSE FALSE

AudioPlayer_is_empty(a) == IF IsSome(a.sink) THEN a.sink[1].empty ELSE TRUE

Clamp(v) == IF v < VolumeMin THEN VolumeMin ELSE IF v > VolumeMax THEN VolumeMax ELSE v

AudioPlayer_set_volume(a, v) ==
    IF IsSome(a.sink) THEN [a EXCEPT !.sink[1].volume = Clamp(v)] ELSE a

\* ------------------------------------------------------------ status texts
StReady == <<"Ready - Use arrows to navigate, Enter to play">>
StNoneFound == <<"No music files found - Press 'r' to refresh or 'q' to quit">>
StNoneAvailable == <<"No music files available to play">>
StPlaying(name) == <<"Playing: ", name>>
StError(e) == <<"Error playing file: ", e>>
StNoFileSelected == <<"No file selected">>
StStopped == <<"Stopped">>
StPaused == <<"Paused">>
StLooped(name) == <<"Looped to beginning - Playing: ", name>>
StVolume(v) == <<"Volume: ", v, "%">>
StNoneInDir == <<"No music files found in directory">>
StRefreshed(n) == <<"Refreshed - Found ", n, " music files">>
StAutoAdvancing == <<"Auto-advancing to next song...">>

IsErrorStatus(st) == \E e \in PlayErrors : st = StError(e)

\* --------------------------------------------------------------------- App
\* App::new, given the result of the scan and a working audio device.
App_new(files) ==
    [ music_files    |-> files,
      selected_index |-> 0,
      list_state     |-> IF files # <<>> THEN Some(0) ELSE None,
      sink           |-> None,
      current_playing |-> None,
      status_message |-> IF files = <<>> THEN StNoneFound ELSE StReady,
      is_paused      |-> FALSE,
      volume         |-> VolumeInit ]

\* next that stays on the last track instead of wrapping.
next_saturating(a) ==
    IF a.music_files # <<>>
    THEN LET i == IF a.selected_index + 1 < Len(a.music_files)
                  THEN a.selected_index + 1 ELSE a.selected_index
         IN [a EXCEPT !.selected_index = i, !.list_state = Some(i)]
    ELSE a

next(a) ==
    IF a.music_files # <<>>
    THEN LET i == (a.selected_index + 1) % Len(a.music_files)
         IN [a EXCEPT !.selected_index = i, !.list_state = Some(i)]
    ELSE a

\* previous that stops at the first track instead of wrapping.
previous_no_wrap(a) ==
    IF a.music_files # <<>>
    THEN LET i == IF a.selected_index = 0 THEN 0 ELSE a.selected_index - 1
         IN [a EXCEPT !.selected_index = i, !.list_state = Some(i)]
    ELSE a

previous(a) ==
    IF a.music_files # <<>>
    THEN LET i == IF a.selected_index = 0 THEN Len(a.music_files) - 1
                  ELSE a.selected_index - 1
         IN [a EXCEPT !.selected_index = i, !.list_state = Some(i)]
    ELSE a

\* music_files.get(selected_index)
get_selected(a) ==
    IF a.selected_index < Len(a.music_files)
    THEN Some(a.music_files[a.selected_index + 1]) ELSE None

\* play_selected, Ok arm, first two assignments.
play_selected_mark(a) ==
    [a EXCEPT !.current_playing = Some(Unwrap(get_selected(a))), !.is_paused = FALSE]

\* play_selected, Ok arm, set_volume and the status.
play_selected_volume(a) ==
    [AudioPlayer_set_volume(a, a.volume)
        EXCEPT !.status_message = StPlaying(Unwrap(get_selected(a)))]

\* play_selected, Err arm.
play_selected_err(a, e) == [a EXCEPT !.status_message = StError(e)]

\* The empty-library arm written as a stop with another status.
play_selected_none_stops(a) ==
    [AudioPlayer_stop(a) EXCEPT !.current_playing = None, !.is_paused = FALSE,
                                !.status_message = StNoneAvailable]

\* play_selected, the arm of the empty library.
play_selected_none(a) == [a EXCEPT !.status_message = StNoneAvailable]

\* play_selected as a whole; o is the result of AudioPlayer::play.
play_selected(a, o) ==
    IF a.music_files = <<>> THEN play_selected_none(a)
    ELSE IF IsSome(get_selected(a))
    THEN IF o = "Ok"
         THEN play_selected_volume(play_selected_mark(AudioPlayer_play(a, o)))
         ELSE play_selected_err(AudioPlayer_play(a, o), o)
    ELSE [a EXCEPT !.status_message = StNoFileSelected]

\* stop that clears the controller's fields and leaves the backend alone.
stop_keeps_session(a) ==
    [a EXCEPT !.current_playing = None, !.is_paused = FALSE,
              !.status_message = StStopped]

\* stop without the reset of the paused flag.
stop_keeps_paused(a) ==
    [AudioPlayer_stop(a) EXCEPT !.current_playing = None, !.status_message = StStopped]

stop(a) ==
    [AudioPlayer_stop(a) EXCEPT !.current_playing = None, !.is_paused = FALSE,
                                !.status_message = StStopped]

\* pause that sets the flag and never reaches the backend.
pause_flag_only(a) ==
    IF IsSome(a.current_playing) /\ ~a.is_paused
    THEN [a EXCEPT !.is_paused = TRUE, !.status_message = StPaused]
    ELSE a

pause(a) ==
    IF IsSome(a.current_playing) /\ ~a.is_paused
    THEN [AudioPlayer_pause(a) EXCEPT !.is_paused = TRUE, !.status_message = StPaused]
    ELSE a

resume(a) ==
    IF IsSome(a.current_playing) /\ a.is_paused
    THEN [AudioPlayer_resume(a) EXCEPT !.is_paused = FALSE,
             !.status_message = StPlaying(Unwrap(a.current_playing))]
    ELSE a

toggle_pause(a) ==
    IF IsSome(a.current_playing)
    THEN IF a.is_paused THEN resume(a) ELSE pause(a)
    ELSE a

\* was_at_end compared with the length instead of the last index.
at_end_off_by_one(a) == a.selected_index = Len(a.music_files)

\* `was_at_end` of play_next.
at_end(a) == a.selected_index = Len(a.music_files) - 1

\* play_next, the block after play_selected returned.
play_next_looped(a, wasAtEnd) ==
    IF wasAtEnd /\ Len(a.music_files) > 0
    THEN [a EXCEPT !.status_message = StLooped(a.music_files[1])]
    ELSE a

\* play_next as a whole.
play_next(a, o) ==
    IF a.music_files # <<>>
    THEN play_next_looped(play_selected(next(a), o), at_end(a))
    ELSE a

\* play_previous as a whole.
play_previous(a, o) ==
    IF a.music_files # <<>> THEN play_selected(previous(a), o) ELSE a

min(x, y) == IF x < y THEN x ELSE y
max(x, y) == IF x > y THEN x ELSE y

\* volume_up without the upper limit.
volume_up_unclamped(a) ==
    LET v == a.volume + 1
    IN [a EXCEPT !.volume = v,
                 !.sink = IF IsSome(a.sink) THEN Some([a.sink[1] EXCEPT !.volume = v])
                          ELSE None,
                 !.status_message = StVolume(v * 10)]

volume_up(a) ==
    LET v == min(a.volume + 1, VolumeMax)
    IN [AudioPlayer_set_volume([a EXCEPT !.volume = v], v)
           EXCEPT !.status_message = StVolume(v * 10)]

\* volume_down that changes the controller's volume and never reaches the backend.
volume_down_controller_only(a) ==
    LET v == max(a.volume - 1, VolumeMin)
    IN [a EXCEPT !.volume = v, !.status_message = StVolume(v * 10)]

volume_down(a) ==
    LET v == max(a.volume - 1, VolumeMin)
    IN [AudioPlayer_set_volume([a EXCEPT !.volume = v], v)
           EXCEPT !.status_message = StVolume(v * 10)]

\* refresh_files without the clamp of selected_index.
refresh_files_no_clamp(a, files) ==
    LET n == Len(files)
    IN [a EXCEPT !.music_files = files,
                 !.list_state = IF n # 0 THEN Some(a.selected_index) ELSE None,
                 !.status_message = IF n = 0 THEN StNoneInDir ELSE StRefreshed(n)]

\* refresh_files that stops the playback of a track missing from the new listing.
refresh_files_stops_missing(a, files) ==
    LET n == Len(files)
        i == IF a.selected_index >= n /\ n # 0 THEN n - 1 ELSE a.selected_index
        gone == IsSome(a.current_playing)
                /\ \A k \in 1..n : files[k] # a.current_playing[1]
        b == IF gone THEN [AudioPlayer_stop(a) EXCEPT !.current_playing = None,
                                                      !.is_paused = FALSE]
             ELSE a
    IN [b EXCEPT !.music_files = files,
                 !.selected_index = i,
                 !.list_state = IF n # 0 THEN Some(i) ELSE None,
                 !.status_message = IF n = 0 THEN StNoneInDir ELSE StRefreshed(n)]

\* refresh_files, given the result of the scan.
refresh_files(a, files) ==
    LET n == Len(files)
        i == IF a.selected_index >= n /\ n # 0 THEN n - 1 ELSE a.selected_index
    IN [a EXCEPT !.music_files = files,
                 !.selected_index = i,
                 !.list_state = IF n # 0 THEN Some(i) ELSE None,
                 !.status_message = IF n = 0 THEN StNoneInDir ELSE StRefreshed(n)]

\* The poll without the test of the paused flag.
auto_advance_due_ignores_pause(a) ==
    IsSome(a.current_playing) /\ (IF IsSome(a.sink) THEN a.sink[1].empty ELSE TRUE)

\* The condition of the auto-advance poll in run_app.
auto_advance_due(a) ==
    IsSome(a.current_playing) /\ ~a.is_paused /\ AudioPlayer_is_empty(a)

\* ------------------------------------------------------------------- state
VARIABLES
    app,          \* the App (fields of struct App and of its AudioPlayer); <<>> before App::new
    local,        \* the local `sink` of AudioPlayer::play: None or Some(sink)
    pc,           \* position of the single thread in main / run_app / the handlers
    op,           \* the operation run_app is executing: "none", "auto", "enter", "n", "p"
    was_at_end,   \* the local `was_at_end` of play_next
    out,          \* result of the AudioPlayer::play of the current operation ("none": not called)
    pre,          \* the App as it was when the current operation began; <<>> between operations
    raw_mode,     \* the terminal is in raw mode
    alt_screen,   \* the terminal shows the alternate screen
    res,          \* the local `res` of main: "none", "Ok", "Err"
    restore_ran,  \* main reached its "Restore terminal" block
    exit_code,    \* -1 while the process runs, then its exit status
    applied,      \* what run_app applied to the App since the last render: "auto", "key"
    scan          \* a run of scan_music_files: the entries WalkDir yields (tree), those
                  \* still to come (walk) and the Vec `files`

vars == <<app, local, pc, op, was_at_end, out, pre, raw_mode, alt_screen, res,
          restore_ran, exit_code, applied, scan>>

termVars == <<raw_mode, alt_screen, res, restore_ran, exit_code>>
opVars == <<op, was_at_end, out, pre>>

Init ==
    /\ app = <<>>
    /\ local = None
    /\ pc = "main"
    /\ op = "none"
    /\ was_at_end = FALSE
    /\ out = "none"
    /\ pre = <<>>
    /\ raw_mode = FALSE
    /\ alt_screen = FALSE
    /\ res = "none"
    /\ restore_ran = FALSE
    /\ exit_code = -1
    /\ applied = <<>>
    /\ scan = [tree |-> <<>>, walk |-> <<>>, files |-> <<>>]

\* ------------------------------------------------------------------- main
\* A `?` in main that returns the error: the process reports it and exits.
MainReturnsErr ==
    /\ pc' = "exited"
    /\ exit_code' = 1
    /\ UNCHANGED <<app, local, opVars, raw_mode, alt_screen, res, restore_ran, applied, scan>>

\* main: the directory given on the command line exists.
MainArgsOk ==
    /\ pc = "main"
    /\ pc' = "enable_raw_mode"
    /\ UNCHANGED <<app, local, opVars, termVars, applied, scan>>

\* main: the directory does not exist: usage error, exit(1).
MainArgsMissing ==
    /\ pc = "main"
    /\ MainReturnsErr

EnableRawModeOk ==
    /\ pc = "enable_raw_mode"
    /\ raw_mode' = TRUE
    /\ pc' = "EnterAlternateScreen"
    /\ UNCHANGED <<app, local, opVars, alt_screen, res, restore_ran, exit_code, applied, scan>>

EnableRawModeErr ==
    /\ pc = "enable_raw_mode"
    /\ MainReturnsErr

EnterAlternateScreenOk ==
    /\ pc = "EnterAlternateScreen"
    /\ alt_screen' = TRUE
    /\ pc' = "Terminal_new"
    /\ UNCHANGED <<app, local, opVars, raw_mode, res, restore_ran, exit_code, applied, scan>>

EnterAlternateScreenErr ==
    /\ pc = "EnterAlternateScreen"
    /\ MainReturnsErr

TerminalNewOk ==
    /\ pc = "Terminal_new"
    /\ pc' = "App_new"
    /\ UNCHANGED <<app, local, opVars, termVars, applied, scan>>

TerminalNewErr ==
    /\ pc = "Terminal_new"
    /\ MainReturnsErr

\* App::new succeeds: the scan found `files`, the audio device was acquired.
AppNewOk ==
    /\ pc = "App_new"
    /\ \E files \in scan_music_files : app' = App_new(files)
    /\ pc' = "draw"
    /\ UNCHANGED <<local, opVars, termVars, applied, scan>>

\* App::new fails: AudioPlayer::new found no output device.
AppNewErr ==
    /\ pc = "App_new"
    /\ MainReturnsErr

\* run_app returned: main stores the result and goes on to restore the terminal.
RunAppReturns(r) ==
    /\ res' = r
    /\ pc' = "disable_raw_mode"
    /\ UNCHANGED <<app, local, opVars, raw_mode, alt_screen, restore_ran, exit_code, applied, scan>>

DisableRawModeOk ==
    /\ pc = "disable_raw_mode"
    /\ restore_ran' = TRUE
    /\ raw_mode' = FALSE
    /\ pc' = "LeaveAlternateScreen"
    /\ UNCHANGED <<app, local, opVars, alt_screen, res, exit_code, applied, scan>>

DisableRawModeErr ==
    /\ pc = "disable_raw_mode"
    /\ restore_ran' = TRUE
    /\ pc' = "exited"
    /\ exit_code' = 1
    /\ UNCHANGED <<app, local, opVars, raw_mode, alt_screen, res, applied, scan>>

LeaveAlternateScreenOk ==
    /\ pc = "LeaveAlternateScreen"
    /\ alt_screen' = FALSE
    /\ pc' = "show_cursor"
    /\ UNCHANGED <<app, local, opVars, raw_mode, res, restore_ran, exit_code, applied, scan>>

LeaveAlternateScreenErr ==
    /\ pc = "LeaveAlternateScreen"
    /\ MainReturnsErr

ShowCursorOk ==
    /\ pc = "show_cursor"
    /\ pc' = "report"
    /\ UNCHANGED <<app, local, opVars, termVars, applied, scan>>

ShowCursorErr ==
    /\ pc = "show_cursor"
    /\ MainReturnsErr

\* main: print the error of run_app, if any, and return Ok(()).
Report ==
    /\ pc = "report"
    /\ pc' = "exited"
    /\ exit_code' = 0
    /\ UNCHANGED <<app, local, opVars, raw_mode, alt_screen, res, restore_ran, applied, scan>>

\* ---------------------------------------------------------------- run_app
\* terminal.draw succeeds; the previous operation is over.
Draw ==
    /\ pc = "draw"
    /\ pc' = "poll"
    /\ op' = "none"
    /\ was_at_end' = FALSE
    /\ out' = "none"
    /\ pre' = <<>>
    /\ applied' = <<>>
    /\ UNCHANGED <<app, local, termVars, scan>>

DrawErr ==
    /\ pc = "draw"
    /\ RunAppReturns("Err")

\* The auto-advance poll finds the track finished.
PollAutoAdvance ==
    /\ pc = "poll"
    /\ auto_advance_due(app)
    /\ app' = [app EXCEPT !.status_message = StAutoAdvancing]
    /\ op' = "auto"
    /\ pre' = app
    /\ pc' = "play_next"
    /\ applied' = Append(applied, "auto")
    /\ UNCHANGED <<local, was_at_end, out, termVars, scan>>

PollNothing ==
    /\ pc = "poll"
    /\ ~auto_advance_due(app)
    /\ pc' = "read"
    /\ UNCHANGED <<app, local, opVars, termVars, applied, scan>>

ReadErr ==
    /\ pc = "read"
    /\ RunAppReturns("Err")

KeyQuit ==
    /\ pc = "read"
    /\ RunAppReturns("Ok")

\* An event that is not a key press, or a key without a binding.
KeyOther ==
    /\ pc = "read"
    /\ pc' = "draw"
    /\ UNCHANGED <<app, local, opVars, termVars, applied, scan>>

\* A key whose handler is one App method, run as one step that yields newApp.
Handle(newApp) ==
    /\ pc = "read"
    /\ app' = newApp
    /\ pc' = "draw"
    /\ applied' = Append(applied, "key")
    /\ UNCHANGED <<local, opVars, termVars, scan>>

KeyDown == Handle(next(app))
KeyUp == Handle(previous(app))
KeyStop == Handle(stop(app))
KeySpace == Handle(toggle_pause(app))
KeyPlus == Handle(volume_up(app))
KeyMinus == Handle(volume_down(app))

KeyRefresh ==
    /\ pc = "read"
    /\ \E files \in scan_music_files : app' = refresh_files(app, files)
    /\ pc' = "draw"
    /\ applied' = Append(applied, "key")
    /\ UNCHANGED <<local, opVars, termVars, scan>>

\* 'r' when the root directory is gone: refresh_files with the `?` on the scan.
KeyRefreshRootGone ==
    /\ pc = "read"
    /\ IF scan_root_gone.ok
       THEN /\ app' = refresh_files(app, scan_root_gone.files)
            /\ pc' = "draw"
            /\ applied' = Append(applied, "key")
            /\ UNCHANGED <<local, opVars, termVars, scan>>
       ELSE RunAppReturns("Err")

\* A key whose handler plays a track: the handler runs step by step from `entry`.
Begin(o, entry) ==
    /\ pc = "read"
    /\ op' = o
    /\ pre' = app
    /\ pc' = entry
    /\ was_at_end' = FALSE
    /\ out' = "none"
    /\ applied' = Append(applied, "key")
    /\ UNCHANGED <<app, local, termVars, scan>>

KeyEnter == Begin("enter", "play_selected")
KeyN == Begin("n", "play_next")
KeyP == Begin("p", "play_previous")

\* Where play_selected returns to.
AfterPlaySelected == IF op \in {"n", "auto"} THEN "play_next_tail" ELSE "draw"

\* Where play_next returns to: the end of the auto-advance block of run_app
\* (event::read comes next), or the end of the match arm (the render comes next).
AfterPlayNext == IF op = "auto" THEN "auto_done" ELSE "draw"

\* play_next up to the call of play_selected.
PlayNextEnter ==
    /\ pc = "play_next"
    /\ IF app.music_files # <<>>
       THEN /\ was_at_end' = at_end(app)
            /\ app' = next(app)
            /\ pc' = "play_selected"
       ELSE /\ pc' = AfterPlayNext
            /\ UNCHANGED <<app, was_at_end>>
    /\ UNCHANGED <<local, op, out, pre, termVars, applied, scan>>

\* play_previous up to the call of play_selected.
PlayPreviousEnter ==
    /\ pc = "play_previous"
    /\ IF app.music_files # <<>>
       THEN /\ app' = previous(app)
            /\ pc' = "play_selected"
       ELSE /\ pc' = "draw"
            /\ UNCHANGED app
    /\ UNCHANGED <<local, opVars, termVars, applied, scan>>

\* play_selected up to the call of AudioPlayer::play.
PlaySelectedEnter ==
    /\ pc = "play_selected"
    /\ IF app.music_files = <<>>
       THEN /\ app' = play_selected_none(app)
            /\ pc' = AfterPlaySelected
       ELSE IF IsSome(get_selected(app))
       THEN /\ pc' = "play_stop"
            /\ UNCHANGED app
       ELSE /\ app' = [app EXCEPT !.status_message = StNoFileSelected]
            /\ pc' = AfterPlaySelected
    /\ UNCHANGED <<local, opVars, termVars, applied, scan>>

\* AudioPlayer::play: self.stop()
PlayStop ==
    /\ pc = "play_stop"
    /\ app' = AudioPlayer_stop(app)
    /\ pc' = "play_sink"
    /\ UNCHANGED <<local, opVars, termVars, applied, scan>>

\* AudioPlayer::play: Sink::try_new succeeds.
PlaySinkOk ==
    /\ pc = "play_sink"
    /\ local' = Some(Sink_try_new)
    /\ pc' = "play_open"
    /\ UNCHANGED <<app, opVars, termVars, applied, scan>>

\* AudioPlayer::play: Sink::try_new fails.
PlaySinkErr ==
    /\ pc = "play_sink"
    /\ out' = "NoDevice"
    /\ pc' = "play_err"
    /\ UNCHANGED <<app, local, op, was_at_end, pre, termVars, applied, scan>>

\* AudioPlayer::play: the file opens and decodes; append, play, store.
PlayOpenOk ==
    /\ pc = "play_open"
    /\ app' = AudioPlayer_store(app, Unwrap(local))
    /\ local' = None
    /\ out' = "Ok"
    /\ pc' = "play_ok"
    /\ UNCHANGED <<op, was_at_end, pre, termVars, applied, scan>>

\* AudioPlayer::play: File::open or Decoder::new fails; the local sink is dropped.
PlayOpenErr ==
    /\ pc = "play_open"
    /\ \E e \in {"OpenFailed", "DecodeFailed"} : out' = e
    /\ local' = None
    /\ pc' = "play_err"
    /\ UNCHANGED <<app, op, was_at_end, pre, termVars, applied, scan>>

\* play_selected, Ok arm: current_playing and is_paused.
PlayOkMark ==
    /\ pc = "play_ok"
    /\ app' = play_selected_mark(app)
    /\ pc' = "play_set_volume"
    /\ UNCHANGED <<local, opVars, termVars, applied, scan>>

\* play_selected, Ok arm: set_volume and status; play_selected returns.
PlayOkVolume ==
    /\ pc = "play_set_volume"
    /\ app' = play_selected_volume(app)
    /\ pc' = AfterPlaySelected
    /\ UNCHANGED <<local, opVars, termVars, applied, scan>>

\* play_selected, Err arm; play_selected returns.
PlayErr ==
    /\ pc = "play_err"
    /\ app' = play_selected_err(app, out)
    /\ pc' = AfterPlaySelected
    /\ UNCHANGED <<local, opVars, termVars, applied, scan>>

\* play_next after play_selected returned.
PlayNextTail ==
    /\ pc = "play_next_tail"
    /\ app' = play_next_looped(app, was_at_end)
    /\ pc' = AfterPlayNext
    /\ UNCHANGED <<local, opVars, termVars, applied, scan>>

\* The loop going back to the poll after an auto-advance.
AutoReturn_polls_again ==
    /\ pc = "auto_done"
    /\ pc' = "poll"
    /\ op' = "none"
    /\ was_at_end' = FALSE
    /\ out' = "none"
    /\ pre' = <<>>
    /\ UNCHANGED <<app, local, termVars, applied, scan>>

\* run_app leaves the auto-advance block and goes on to event::read; the
\* auto-advance is over.
AutoReturn ==
    /\ pc = "auto_done"
    /\ pc' = "read"
    /\ op' = "none"
    /\ was_at_end' = FALSE
    /\ out' = "none"
    /\ pre' = <<>>
    /\ UNCHANGED <<app, local, termVars, applied, scan>>

\* The output thread consumes the last of the queued audio.  Only the poll
\* reads the queue: a drain during a handler or the render that follows it is
\* a drain right before the poll.
SinkDrain ==
    /\ pc \in {"poll", "read"}
    /\ IsSome(app.sink)
    /\ ~app.sink[1].paused
    /\ ~app.sink[1].empty
    /\ app' = [app EXCEPT !.sink[1].empty = TRUE]
    /\ UNCHANGED <<local, pc, opVars, termVars, applied, scan>>

Next ==
    \/ MainArgsOk \/ MainArgsMissing
    \/ EnableRawModeOk \/ EnableRawModeErr
    \/ EnterAlternateScreenOk \/ EnterAlternateScreenErr
    \/ TerminalNewOk \/ TerminalNewErr
    \/ AppNewOk \/ AppNewErr
    \/ DisableRawModeOk \/ DisableRawModeErr
    \/ LeaveAlternateScreenOk \/ LeaveAlternateScreenErr
    \/ ShowCursorOk \/ ShowCursorErr
    \/ Report
    \/ Draw \/ DrawErr
    \/ PollAutoAdvance \/ PollNothing \/ AutoReturn
    \/ ReadErr \/ KeyQuit \/ KeyOther
    \/ KeyDown \/ KeyUp \/ KeyStop \/ KeySpace \/ KeyPlus \/ KeyMinus
    \/ KeyRefreshRootGone \/ KeyRefresh \/ KeyEnter \/ KeyN \/ KeyP
    \/ PlayNextEnter \/ PlayPreviousEnter \/ PlaySelectedEnter
    \/ PlayStop \/ PlaySinkOk \/ PlaySinkErr \/ PlayOpenOk \/ PlayOpenErr
    \/ PlayOkMark \/ PlayOkVolume \/ PlayErr \/ PlayNextTail
    \/ SinkDrain

Spec == Init /\ [][Next]_vars

\* ------------------------------------------- scan_music_files, step by step
\* Largest number of items the walk yields.
MaxEntries == 3

Stems == {97, 98, 99}
Exts == {ExtMp3, <<77, 80, 51>>, ExtWav, <<116, 120, 116>>, <<>>}
WalkItems ==
    {WalkErr} \cup {WalkEntry(st, x, d) : st \in Stems, x \in Exts, d \in BOOLEAN}
Walks == UNION {[1..n -> WalkItems] : n \in 0..MaxEntries}

InitScan ==
    /\ app = <<>>
    /\ local = None
    /\ pc = "scan_walk"
    /\ op = "none"
    /\ was_at_end = FALSE
    /\ out = "none"
    /\ pre = <<>>
    /\ raw_mode = FALSE
    /\ alt_screen = FALSE
    /\ res = "none"
    /\ restore_ran = FALSE
    /\ exit_code = -1
    /\ applied = <<>>
    /\ \E t \in Walks : scan = [tree |-> t, walk |-> t, files |-> <<>>]

notScan == <<app, local, op, was_at_end, out, pre, raw_mode, alt_screen, res,
             restore_ran, exit_code, applied>>

\* filter_map(|e| e.ok()) drops an item that is an error.
ScanSkipErr ==
    /\ pc = "scan_walk"
    /\ scan.walk # <<>>
    /\ ~Head(scan.walk).ok
    /\ scan' = [scan EXCEPT !.walk = Tail(@)]
    /\ UNCHANGED <<pc, notScan>>

\* The loop body for the next entry.
ScanVisit ==
    /\ pc = "scan_walk"
    /\ scan.walk # <<>>
    /\ Head(scan.walk).ok
    /\ scan' = [scan EXCEPT
                   !.walk = Tail(@),
                   !.files = scan_visit(@, Head(scan.walk),
                                        Len(scan.tree) - Len(scan.walk) + 1)]
    /\ UNCHANGED <<pc, notScan>>

\* The walk is over: sort and return Ok(files).
ScanSort ==
    /\ pc = "scan_walk"
    /\ scan.walk = <<>>
    /\ scan' = [scan EXCEPT !.files = sort_by_name(@)]
    /\ pc' = "scan_done"
    /\ UNCHANGED notScan

NextScan == ScanSkipErr \/ ScanVisit \/ ScanSort

SpecScan == InitScan /\ [][NextScan]_vars

\* ================================================================= claims
Constructed == app # <<>>

\* play_selected has just returned to its caller.
PlaySelectedReturned ==
    \/ op \in {"enter", "p"} /\ pc = "draw"
    \/ op \in {"n", "auto"} /\ pc = "play_next_tail"

\* The operation `op` has just returned to run_app.
OperationDone ==
    \/ op \in {"enter", "n", "p"} /\ pc = "draw"
    \/ op = "auto" /\ pc = "auto_done"

\* Number of Sink objects alive: the stored one and the local of play.
LiveSinks ==
    (IF Constructed /\ IsSome(app.sink) THEN 1 ELSE 0) + (IF IsSome(local) THEN 1 ELSE 0)

\* C1: at most one playback session exists in every state, the states inside
\* AudioPlayer::play included: the old sink is gone before the new one is built.
C1_AtMostOneSession == LiveSinks <= 1

\* C1 witness: a play begun while a session existed has built its new sink.
C1_Witness ==
    /\ pc = "play_open"
    /\ IsSome(local)
    /\ IsSome(pre.sink)

\* C2 (as claimed): when play_selected returns after a failed backend play, the
\* status is an error status, no track is marked playing and the backend is Idle.
C2_FailedPlayLeavesNothingPlaying ==
    (PlaySelectedReturned /\ out \in PlayErrors) =>
        /\ IsErrorStatus(app.status_message)
        /\ app.current_playing = None
        /\ app.sink = None

\* C3: with a non-empty library the cursor (selected_index and the list
\* selection) is an index of the library.
C3_CursorInRange ==
    (Constructed /\ app.music_files # <<>>) =>
        /\ app.selected_index \in 0..(Len(app.music_files) - 1)
        /\ app.list_state = Some(app.selected_index)

\* C3 witness: a refresh removed the track under the cursor (the playing one,
\* which sorts last) and the cursor sits on the last remaining track.
C3_Witness ==
    /\ Constructed
    /\ app.music_files = <<AllNames[1]>>
    /\ app.status_message = StRefreshed(1)
    /\ app.current_playing = Some(AllNames[2])
    /\ app.selected_index = 0

\* C4: a handler that plays a track runs only for a user command (Enter, n, p)
\* or for an auto-advance whose poll saw a track marked playing, not paused and
\* the backend finished (no session, or a session with nothing queued).
C4_AutoAdvanceOnlyWhenDue ==
    (Constructed /\ pc \notin {"draw", "poll", "read", "disable_raw_mode",
                               "LeaveAlternateScreen", "show_cursor", "report",
                               "exited"}) =>
        \/ op \in {"enter", "n", "p"}
        \/ /\ op = "auto"
           /\ pre.current_playing # None
           /\ ~pre.is_paused
           /\ (pre.sink = None \/ pre.sink[1].empty)

\* C4 witness: an auto-advance has started a new session.
C4_Witness == op = "auto" /\ pc = "play_ok" /\ IsSome(app.sink)

\* The result of AudioPlayer::play in the operation just done ("Ok" when
\* play was not called: the whole-method operators ignore it then).
Outcome == IF out = "none" THEN "Ok" ELSE out

\* C5 (as claimed): the App after an auto-advance equals the App play_next
\* produces from the App the poll saw, the status and an empty library included.
C5_AutoAdvanceIsPlayNext ==
    (op = "auto" /\ pc = "auto_done") => app = play_next(pre, Outcome)

\* C6 (as claimed): the process never exits with the terminal still in raw
\* mode or on the alternate screen unless the restoration block has run.
C6_TerminalRestoredOnExit ==
    (pc = "exited" /\ (raw_mode \/ alt_screen)) => restore_ran

\* C7 (as claimed): after play_next or play_previous whose backend play failed,
\* the status is an error status.
C7_FailedNextShowsError ==
    (OperationDone /\ op \in {"n", "p", "auto"} /\ out \in PlayErrors) =>
        IsErrorStatus(app.status_message)

\* C8: after a successful play_next the status is the loop-back message exactly
\* when the cursor was on the last track before the call; otherwise it is the
\* playing message of the track now under the cursor; the two never coincide.
C8_LoopBackIffWrapped ==
    (OperationDone /\ op \in {"n", "auto"} /\ out = "Ok") =>
        LET wrapped == pre.selected_index = Len(pre.music_files) - 1
        IN /\ wrapped <=> app.status_message = StLooped(app.music_files[1])
           /\ wrapped => app.selected_index = 0
           /\ ~wrapped =>
                 /\ app.selected_index = pre.selected_index + 1
                 /\ app.status_message =
                        StPlaying(app.music_files[app.selected_index + 1])
           /\ \A i, j \in 1..Len(AllNames) :
                 StLooped(AllNames[i]) # StPlaying(AllNames[j])

\* C8 witness: play_next from the last of several tracks succeeded.
C8_Witness ==
    /\ OperationDone /\ op = "n" /\ out = "Ok"
    /\ Len(pre.music_files) >= 2
    /\ pre.selected_index = Len(pre.music_files) - 1

\* C9: every stop leaves no track marked playing, the paused flag false, the
\* stopped status and the backend Idle, and a stop of that state changes nothing.
C9_StopResets ==
    [][KeyStop =>
        /\ app'.current_playing = None
        /\ app'.is_paused = FALSE
        /\ app'.status_message = StStopped
        /\ app'.sink = None
        /\ local' = None
        /\ stop(app') = app']_vars

\* C9 witness: a stop has just been handled.
C9_Witness ==
    /\ Constructed /\ pc = "draw" /\ app.status_message = StStopped
    /\ app.sink = None /\ app.current_playing = None

\* The session of a after the backend's pause (paused = TRUE) or resume.
SinkWithPaused(a, p) ==
    IF a.sink = None THEN None ELSE Some([a.sink[1] EXCEPT !.paused = p])

\* Idle, Playing or Paused.
BackendState(a) ==
    IF a.sink = None THEN "Idle" ELSE IF a.sink[1].paused THEN "Paused" ELSE "Playing"

\* C10: toggle_pause changes nothing when no track is marked playing; else it
\* flips the paused flag, pauses (resumes) the backend's session and sets the
\* paused (playing) status; a second toggle restores the flag and the backend.
C10_TogglePause ==
    [][KeySpace =>
        /\ app.current_playing = None => app' = app
        /\ (app.current_playing # None /\ ~app.is_paused) =>
              app' = [app EXCEPT !.is_paused = TRUE,
                                 !.status_message = StPaused,
                                 !.sink = SinkWithPaused(app, TRUE)]
        /\ (app.current_playing # None /\ app.is_paused) =>
              app' = [app EXCEPT !.is_paused = FALSE,
                                 !.status_message = StPlaying(app.current_playing[1]),
                                 !.sink = SinkWithPaused(app, FALSE)]
        /\ toggle_pause(app').is_paused = app.is_paused
        /\ BackendState(toggle_pause(app')) = BackendState(app)]_vars

\* C10 witness: a toggle has paused a playing session.
C10_Witness ==
    /\ Constructed /\ pc = "draw"
    /\ app.status_message = StPaused
    /\ app.is_paused
    /\ BackendState(app) = "Paused"

\* C11: a refresh leaves the playing name, the paused flag, the volume and the
\* backend session as they were, also when the playing track is not in the new
\* listing; with a non-empty listing the cursor becomes the smaller of the old
\* index and the last index, with an empty one the selection becomes none.
C11_RefreshFrame ==
    [][KeyRefresh =>
        /\ app'.current_playing = app.current_playing
        /\ app'.is_paused = app.is_paused
        /\ app'.volume = app.volume
        /\ app'.sink = app.sink
        /\ local' = local
        /\ app'.music_files # <<>> =>
              /\ app'.selected_index =
                    (IF app.selected_index < Len(app'.music_files) - 1
                     THEN app.selected_index ELSE Len(app'.music_files) - 1)
              /\ app'.list_state = Some(app'.selected_index)
        /\ app'.music_files = <<>> => app'.list_state = None
        /\ app'.status_message =
              (IF app'.music_files = <<>> THEN StNoneInDir
               ELSE StRefreshed(Len(app'.music_files)))]_vars

\* C11 witness: after a refresh the session still plays a track that is not in
\* the new listing, and the cursor was clamped to the last remaining track.
C11_Witness ==
    /\ Constructed /\ pc = "draw"
    /\ app.status_message = StRefreshed(1)
    /\ app.music_files = <<AllNames[1]>>
    /\ app.current_playing = Some(AllNames[2])
    /\ BackendState(app) = "Playing"
    /\ app.selected_index = 0

\* C12: the controller volume and the volume of every sink, stored or local,
\* stay between 0.0 and 1.0.
C12_VolumeInRange ==
    Constructed =>
        /\ app.volume \in VolumeMin..VolumeMax
        /\ IsSome(app.sink) => app.sink[1].volume \in VolumeMin..VolumeMax
        /\ IsSome(local) => local[1].volume \in VolumeMin..VolumeMax

\* C12 witness: volume-down has brought a live session to the lower limit.
C12_Witness ==
    /\ Constructed /\ pc = "draw"
    /\ app.volume = VolumeMin
    /\ app.status_message = StVolume(0)
    /\ IsSome(app.sink) /\ app.sink[1].volume = VolumeMin

\* C13: cursor-down goes from the last index to 0 and from any other index i to
\* i+1; cursor-up goes from 0 to the last index and from any other i to i-1;
\* nothing but the cursor changes, and with an empty library nothing changes.
C13_CursorWraps ==
    [][/\ KeyDown =>
            IF app.music_files = <<>> THEN app' = app /\ app.list_state = None
            ELSE app' = [app EXCEPT
                    !.selected_index =
                        IF app.selected_index = Len(app.music_files) - 1 THEN 0
                        ELSE app.selected_index + 1,
                    !.list_state =
                        Some(IF app.selected_index = Len(app.music_files) - 1 THEN 0
                             ELSE app.selected_index + 1)]
       /\ KeyUp =>
            IF app.music_files = <<>> THEN app' = app /\ app.list_state = None
            ELSE app' = [app EXCEPT
                    !.selected_index =
                        IF app.selected_index = 0 THEN Len(app.music_files) - 1
                        ELSE app.selected_index - 1,
                    !.list_state =
                        Some(IF app.selected_index = 0 THEN Len(app.music_files) - 1
                             ELSE app.selected_index - 1)]
      ]_vars

\* C13 witness: only cursor moves since the start, and the cursor is on the
\* last of several tracks.
C13_Witness ==
    /\ Constructed /\ pc = "draw"
    /\ app.status_message = StReady
    /\ Len(app.music_files) >= 2
    /\ app.selected_index = Len(app.music_files) - 1

\* C14: play_selected on an empty library changes only the status, which becomes
\* the no-files message; the backend is not called and the loop goes on.
C14_PlaySelectedEmpty ==
    (op = "enter" /\ pc = "draw" /\ pre.music_files = <<>>) =>
        /\ app = [pre EXCEPT !.status_message = StNoneAvailable]
        /\ out = "none"
        /\ local = None
        /\ res = "none"

\* C14 witness: Enter on a library that a refresh emptied while a session plays.
C14_Witness ==
    /\ op = "enter" /\ pc = "draw"
    /\ pre.music_files = <<>>
    /\ IsSome(pre.sink)
    /\ app.status_message = StNoneAvailable

\* The entries of the tree that the claim wants listed: readable regular files
\* whose extension is a music extension, compared without case.
WantedPaths ==
    {i \in 1..Len(scan.tree) :
        scan.tree[i].ok /\ ~scan.tree[i].dir /\ is_music(scan.tree[i])}

\* C15 (as claimed): scan returns one Track for each regular file with a music
\* extension and no other Track, in ordinal order of the names.
C15_ScanExactAndSorted ==
    pc = "scan_done" =>
        /\ {scan.files[k].path : k \in 1..Len(scan.files)} = WantedPaths
        /\ Len(scan.files) = Cardinality(WantedPaths)
        /\ \A k \in 1..Len(scan.files) :
              scan.files[k].name = file_name(scan.tree[scan.files[k].path])
        /\ \A j, k \in 1..Len(scan.files) :
              j < k => str_le(scan.files[j].name, scan.files[k].name)

\* C16: a refresh while the root directory is gone is no error: the library
\* becomes empty, the status the empty-library message, and the loop goes on to
\* the next render.
C16_RefreshToleratesMissingRoot ==
    [][KeyRefreshRootGone =>
        /\ app'.music_files = <<>>
        /\ app'.list_state = None
        /\ app'.status_message = StNoneInDir
        /\ pc' = "draw"
        /\ res' = "none"]_vars

\* C16 witness: the library was emptied by a refresh while a track is marked
\* playing, and the loop is about to render.
C16_Witness ==
    /\ Constructed /\ pc = "draw" /\ res = "none"
    /\ app.music_files = <<>>
    /\ app.status_message = StNoneInDir
    /\ IsSome(app.current_playing)

\* C17 (as claimed): between two renders run_app applies at most one mutation,
\* an auto-advance or the dispatch of one key.
C17_OneMutationPerRender == Len(applied) <= 1

\* C17 (amended): between two renders run_app applies at most one auto-advance
\* and then at most one key dispatch.
C17_AutoThenKeyPerRender ==
    applied \in {<<>>, <<"auto">>, <<"key">>, <<"auto", "key">>}

\* C17 witness: an auto-advance and a key dispatch since the last render.
C17_Witness == pc = "draw" /\ applied = <<"auto", "key">>

\* C18 (as claimed): a session that is playing plays at the configured volume,
\* in the states inside play_selected too.
C18_PlaysAtConfiguredVolume ==
    (Constructed /\ BackendState(app) = "Playing" /\ ~app.sink[1].empty) =>
        app.sink[1].volume = app.volume

\* The successor, with wraparound, of index i (0-based) in files.
Successor(files, i) == files[((i + 1) % Len(files)) + 1]

\* C19 (as claimed): the track an auto-advance starts after a session ran out
\* is the library successor of the track that finished.
C19_AutoAdvancePlaysSuccessorOfFinished ==
    (op = "auto" /\ pc = "auto_done" /\ out = "Ok" /\ IsSome(pre.sink)) =>
        \E i \in 0..(Len(pre.music_files) - 1) :
            /\ pre.music_files[i + 1] = pre.current_playing[1]
            /\ app.current_playing = Some(Successor(pre.music_files, i))

\* C19 (amended): the track an auto-advance starts is the library successor of
\* the track under the cursor at the poll; it is the successor of the finished
\* track when the cursor is on the finished track.
C19_AutoAdvancePlaysSuccessorOfCursor ==
    (op = "auto" /\ pc = "auto_done" /\ out = "Ok") =>
        /\ app.current_playing = Some(Successor(pre.music_files, pre.selected_index))
        /\ app.selected_index = (pre.selected_index + 1) % Len(pre.music_files)
        /\ pre.music_files[pre.selected_index + 1] = pre.current_playing[1] =>
              \E i \in 0..(Len(pre.music_files) - 1) :
                  /\ pre.music_files[i + 1] = pre.current_playing[1]
                  /\ app.current_playing = Some(Successor(pre.music_files, i))

\* C19 witness: an auto-advance after the session ran out, with the cursor on
\* the last track and away from the track that finished.
C19_Witness ==
    /\ op = "auto" /\ pc = "auto_done" /\ out = "Ok"
    /\ IsSome(pre.sink)
    /\ Len(pre.music_files) >= 2
    /\ pre.selected_index = Len(pre.music_files) - 1
    /\ pre.music_files[pre.selected_index + 1] # pre.current_playing[1]

\* C20 (as claimed): whenever run_app is between operations, the paused flag
\* of the controller equals the paused state of the backend.
C20_PausedFlagMatchesBackend ==
    (Constructed /\ pc \in {"draw", "poll", "read", "auto_done"}) =>
        app.is_paused = AudioPlayer_is_paused(app)

\* run_app is between two operations: no handler is running.
BetweenOperations == Constructed /\ pc \in {"draw", "poll", "read", "auto_done"}

\* C21: whenever run_app is between operations and the backend holds a
\* session, a track is marked as currently playing; so when no track is marked
\* the backend is Idle.
C21_SessionImpliesMarked ==
    BetweenOperations =>
        /\ IsSome(app.sink) => IsSome(app.current_playing)
        /\ app.current_playing = None => BackendState(app) = "Idle"

\* C21 witness: a play started from a controller with nothing marked has
\* returned with a session in the backend.
C21_Witness ==
    /\ OperationDone /\ out = "Ok"
    /\ pre.current_playing = None
    /\ IsSome(app.sink)

\* C22: whenever run_app is between operations and the backend holds a
\* session, the volume of the session is the volume of the controller.
C22_SessionVolumeIsControllerVolume ==
    (BetweenOperations /\ IsSome(app.sink)) => app.sink[1].volume = app.volume

\* C22 witness: a play has replaced a session after the volume was changed away
\* from its initial value and from the default of a new sink.
C22_Witness ==
    /\ OperationDone /\ out = "Ok"
    /\ IsSome(pre.sink) /\ IsSome(app.sink)
    /\ app.volume \notin {VolumeInit, SinkDefaultVolume}

====
